---------------------------- MODULE Spec2Model ----------------------------
(***************************************************************************)
(* Model of dense_retrieval_faiss.py: load_wikipedia_articles (file        *)
(* resolution, per-file and per-line ingestion) and the __main__ build     *)
(* pipeline (chunked embedding, index build, artifact save, test           *)
(* retrieval).                                                             *)
(*                                                                         *)
(* Strings are sequences of code points, so that Python's string order,    *)
(* endswith, os.path.join and ' '.join are computed and not assumed.       *)
(***************************************************************************)
EXTENDS Integers, Sequences, FiniteSets

(***************************************************************************)
(* Bounds of the model.                                                    *)
(***************************************************************************)
\* lines read over one whole run of load_wikipedia_articles
MaxTotalLines == 3
\* top-level items of a record's `text` list
MaxItems == 2
\* largest chunk size the embedding loop is run with
MaxChunkSize == 2

(***************************************************************************)
(* Strings.                                                                *)
(***************************************************************************)
SeqsUpTo(S, n) == UNION {[1..m -> S] : m \in 0..n}

Min(a, b) == IF a <= b THEN a ELSE b

\* str.endswith
EndsWith(s, suffix) ==
    /\ Len(s) >= Len(suffix)
    /\ SubSeq(s, Len(s) - Len(suffix) + 1, Len(s)) = suffix

\* Python's order on str: code point by code point, a proper prefix first.
RECURSIVE StrLess(_, _)
StrLess(a, b) ==
    IF b = <<>> THEN FALSE
    ELSE IF a = <<>> THEN TRUE
    ELSE IF Head(a) # Head(b) THEN Head(a) < Head(b)
    ELSE StrLess(Tail(a), Tail(b))

\* os.path.join(a, b) on a POSIX system, for a relative b
OsPathJoin(a, b) ==
    IF b # <<>> /\ Head(b) = 47 THEN b
    ELSE IF a = <<>> \/ a[Len(a)] = 47 THEN a \o b
    ELSE a \o <<47>> \o b

\* ' '.join(sentences)
RECURSIVE SpaceJoin(_)
SpaceJoin(sentences) ==
    IF sentences = <<>> THEN <<>>
    ELSE IF Len(sentences) = 1 THEN Head(sentences)
    ELSE Head(sentences) \o <<32>> \o SpaceJoin(Tail(sentences))

(***************************************************************************)
(* JSON values, as json.loads returns them: every value is a record of one *)
(* shape, t its Python type (str, num for int/float/bool/None, list), s    *)
(* the characters of a str, l the elements of a list.                      *)
(***************************************************************************)
Str(chars) == [t |-> "str", s |-> chars, l |-> <<>>]
Num == [t |-> "num", s |-> <<>>, l |-> <<>>]
List(elems) == [t |-> "list", s |-> <<>>, l |-> elems]

\* A parsed JSON object: has is the set of its keys
Doc(has, id, title, text) == [has |-> has, id |-> id, title |-> title, text |-> text]

\* A line of a file: blank (whitespace only), bad (json.loads raises
\* JSONDecodeError) or json (json.loads returns doc)
BlankLine == [kind |-> "blank", doc |-> Doc({}, <<>>, <<>>, List(<<>>))]
BadLine == [kind |-> "bad", doc |-> Doc({}, <<>>, <<>>, List(<<>>))]
JsonLine(doc) == [kind |-> "json", doc |-> doc]

NoArticle == [id |-> <<>>, title |-> <<>>, text |-> <<>>]

\* isinstance(text_data, ...) for what `for item in text_data` can iterate
Iterable(v) == v.t \in {"list", "str"}

\* the items `for item in text_data` yields: a list's elements, a str's characters
ItemsOf(v) ==
    IF v.t = "list" THEN v.l
    ELSE [i \in 1..Len(v.s) |-> Str(<<v.s[i]>>)]

\* [s for s in item if isinstance(s, str)]
StrsOf(elems) ==
    LET strs == SelectSeq(elems, LAMBDA e : e.t = "str")
    IN  [i \in 1..Len(strs) |-> strs[i].s]

\* the loop of lines 79-83 flattening every level: a plausible slip
RECURSIVE SentencesDeep(_)
SentencesDeep(items) ==
    IF items = <<>> THEN <<>>
    ELSE LET item == Head(items)
             here == IF item.t = "list" THEN SentencesDeep(item.l)
                     ELSE IF item.t = "str" THEN <<item.s>>
                     ELSE <<>>
         IN  here \o SentencesDeep(Tail(items))

\* the loop of lines 78-83: sentences after iterating items
RECURSIVE Sentences(_)
Sentences(items) ==
    IF items = <<>> THEN <<>>
    ELSE LET item == Head(items)
             here == IF item.t = "list" THEN StrsOf(item.l)
                     ELSE IF item.t = "str" THEN <<item.s>>
                     ELSE <<>>
         IN  here \o Sentences(Tail(items))

\* lines 71-94 without the except clause of line 92: a plausible slip
HandleLineNoExcept(line) ==
    IF line.kind = "blank" THEN [outcome |-> "skip", article |-> NoArticle]
    ELSE IF line.kind = "bad" THEN [outcome |-> "raise", article |-> NoArticle]
    ELSE LET doc == line.doc
             text_data == IF "text" \in doc.has THEN doc.text ELSE List(<<>>)
         IN  IF ~Iterable(text_data) \/ "title" \notin doc.has
             THEN [outcome |-> "raise", article |-> NoArticle]
             ELSE [outcome |-> "doc",
                   article |-> [id |-> IF "id" \in doc.has THEN doc.id ELSE doc.title,
                                title |-> doc.title,
                                text |-> SpaceJoin(Sentences(ItemsOf(text_data)))]]

\* The body of `for line in f` (lines 71-94) for one line: the line is
\* skipped, appends one article, or raises out of the inner try
HandleLine(line) ==
    IF line.kind = "blank" THEN [outcome |-> "skip", article |-> NoArticle]
    ELSE IF line.kind = "bad" THEN [outcome |-> "skip", article |-> NoArticle]
    ELSE LET doc == line.doc
             text_data == IF "text" \in doc.has THEN doc.text ELSE List(<<>>)
         IN  IF ~Iterable(text_data)
             THEN [outcome |-> "raise", article |-> NoArticle]
             ELSE IF "title" \notin doc.has
             THEN [outcome |-> "raise", article |-> NoArticle]
             ELSE [outcome |-> "doc",
                   article |-> [id |-> IF "id" \in doc.has THEN doc.id ELSE doc.title,
                                title |-> doc.title,
                                text |-> SpaceJoin(Sentences(ItemsOf(text_data)))]]

(***************************************************************************)
(* The files and lines the loader is run on.                               *)
(***************************************************************************)
\* ".bz2"
BZ2 == <<46, 98, 122, 50>>

\* decompressed_file_name (line 45), shortened to "enwiki"
decompressed_file_name == <<101, 110, 119, 105, 107, 105>>

\* WIKI_DATA_PATH_FOR_LOADING (line 107), shortened to "d/"
WIKI_DATA_PATH_FOR_LOADING == <<100, 47>>

\* the paths load_wikipedia_articles is called with: "d/", "w", "w.bz2"
DataPaths == {WIKI_DATA_PATH_FOR_LOADING, <<119>>, <<119>> \o BZ2}

\* The files a directory tree may hold, as os.walk reports them (root, file):
\* d/a.bz2, d/a/c.bz2, d/b.bz2, d/c.txt and d/enwiki
TreeUniverse(path) ==
    { [root |-> path, file |-> <<97>> \o BZ2],
      [root |-> OsPathJoin(path, <<97>>), file |-> <<99>> \o BZ2],
      [root |-> path, file |-> <<98>> \o BZ2],
      [root |-> path, file |-> <<99, 46, 116, 120, 116>>],
      [root |-> path, file |-> decompressed_file_name] }

\* The lines a file may hold:
\*   1  a blank line              2  "{bad json"
\*   3  {"id": "1"}               4  {"id": "1", "title": "A", "text": [["a"], "b"]}
\*   5  {"title": "B"}            6  {"id": "1", "title": "C", "text": ["b"]}
LineTable ==
    << BlankLine,
       BadLine,
       JsonLine(Doc({"id"}, <<49>>, <<>>, List(<<>>))),
       JsonLine(Doc({"id", "title", "text"}, <<49>>, <<65>>,
                    List(<<List(<<Str(<<97>>)>>), Str(<<98>>)>>))),
       JsonLine(Doc({"title"}, <<>>, <<66>>, List(<<>>))),
       JsonLine(Doc({"id", "title", "text"}, <<49>>, <<67>>, List(<<Str(<<98>>)>>))) >>

LineIds == 1..Len(LineTable)

VARIABLES
    pc,                 \* where the program is
    data_path,          \* the argument of load_wikipedia_articles
    pathKind,           \* what data_path names: "file", "dir" or "missing"
    tree,               \* the files under data_path when it is a directory
    files_to_process,   \* line 34
    fileIdx,            \* position of the loop of line 64 in files_to_process
    articles,           \* line 31
    readLog,            \* per file opened: its path, the lines read, how the stream ended
    wikipedia_articles, \* line 115
    model_loaded,       \* whether SentenceTransformer(model_name) was constructed (line 126)
    corpus_texts,       \* line 129
    corpus_ids,         \* line 130
    chunk_size,         \* line 134; 0 before it is set
    i,                  \* the loop variable of line 137
    all_embeddings,     \* line 135
    encode_calls,       \* the chunks model.encode was called with, in call order
    corpus_embeddings,  \* line 143
    index,              \* the faiss index: whether it was constructed, and its vectors
    artifacts,          \* the files under dense_retrieval_artifacts/ and what they hold
    reported,           \* the "Rank ..." lines printed by the loop of line 185
    warnings,           \* the positions the loop of line 185 warned about
    line,               \* the line the body of the loop of line 70 is run on
    handled             \* what that body did with it

loadVars == <<data_path, pathKind, tree, files_to_process, fileIdx, articles, readLog,
              wikipedia_articles>>

mainVars == <<model_loaded, corpus_texts, corpus_ids, chunk_size, i, all_embeddings,
              encode_calls, corpus_embeddings, index, artifacts, reported, warnings>>

lineVars == <<line, handled>>

vars == <<pc, loadVars, mainVars, lineVars>>

(***************************************************************************)
(* load_wikipedia_articles                                                 *)
(***************************************************************************)
\* os.path.isfile for a path under the tree
IsFileInTree(p) == \E e \in tree : OsPathJoin(e.root, e.file) = p

\* every order in which os.walk may enumerate the files of the tree
WalkOrders ==
    {w \in [1..Cardinality(tree) -> tree] : \A a, b \in DOMAIN w : a # b => w[a] # w[b]}

\* lines 52-55 for one enumeration: the joined path of every file ending in .bz2
Collect(walk) ==
    LET shards == SelectSeq(walk, LAMBDA e : EndsWith(e.file, BZ2))
    IN  [n \in 1..Len(shards) |-> OsPathJoin(shards[n].root, shards[n].file)]

RECURSIVE InsertSorted(_, _)
InsertSorted(p, sorted) ==
    IF sorted = <<>> THEN <<p>>
    ELSE IF StrLess(p, Head(sorted)) THEN <<p>> \o sorted
    ELSE <<Head(sorted)>> \o InsertSorted(p, Tail(sorted))

RECURSIVE SortedInsertion(_)
SortedInsertion(paths) ==
    IF paths = <<>> THEN <<>>
    ELSE InsertSorted(paths[Len(paths)], SortedInsertion(SubSeq(paths, 1, Len(paths) - 1)))

\* line 57 left out: a plausible slip
SortSkipped(paths) == paths

\* files_to_process.sort() (line 57)
SortPaths(paths) == SortedInsertion(paths)

\* lines 34-57: files_to_process for one enumeration of the tree
ResolveFiles(walk) ==
    IF pathKind = "file" THEN SortPaths(<<data_path>>)
    ELSE IF pathKind = "dir"
    THEN LET potential_single_file == OsPathJoin(data_path, decompressed_file_name)
         IN  IF IsFileInTree(potential_single_file)
             THEN SortPaths(<<potential_single_file>>)
             ELSE SortPaths(Collect(walk))
    ELSE SortPaths(<<>>)

\* lines 67-97 for one file, from line j on: lines are the lines the stream
\* yields before it ends, and io_error tells whether it ends with an I/O
\* error (raised by the open when there are no lines) instead of the end of
\* the file. Gives the articles appended and how the try statement ended.
RECURSIVE ReadFrom(_, _, _)
ReadFrom(lines, io_error, j) ==
    IF j > Len(lines)
    THEN [articles |-> <<>>, ended |-> IF io_error THEN "io_error" ELSE "eof"]
    ELSE LET r == HandleLine(LineTable[lines[j]])
         IN  IF r.outcome = "raise" THEN [articles |-> <<>>, ended |-> "exception"]
             ELSE LET rest == ReadFrom(lines, io_error, j + 1)
                  IN  [articles |-> (IF r.outcome = "doc" THEN <<r.article>> ELSE <<>>)
                                    \o rest.articles,
                       ended |-> rest.ended]

\* articles.append skipping an id already loaded: a plausible slip
RECURSIVE AppendedUnique(_, _)
AppendedUnique(loaded, new) ==
    IF new = <<>> THEN loaded
    ELSE IF \E n \in DOMAIN loaded : loaded[n].id = Head(new).id
    THEN AppendedUnique(loaded, Tail(new))
    ELSE AppendedUnique(Append(loaded, Head(new)), Tail(new))

\* articles after the articles.append calls (line 87) of one file
Appended(loaded, new) == loaded \o new

\* the loop of line 64 left on the first file whose try statement ends in
\* the except clause: a plausible slip (break for continue)
NextFileOrStop(idx, ended) ==
    IF ended = "eof" THEN idx + 1 ELSE Len(files_to_process) + 1

\* the position of the loop of line 64 after a file: the except clause of
\* lines 95-97 goes on with the next file
NextFile(idx, ended) == idx + 1

RECURSIVE LinesIn(_)
LinesIn(log) == IF log = <<>> THEN 0 ELSE Len(Head(log).lines) + LinesIn(Tail(log))

\* lines 31-62: the files are resolved and sorted; none found returns []
Resolve ==
    /\ pc = "resolve"
    /\ \E walk \in WalkOrders :
         LET files == ResolveFiles(walk)
         IN  /\ files_to_process' = files
             /\ pc' = IF files = <<>> THEN "loaded" ELSE "reading"
    /\ fileIdx' = 1
    /\ articles' = <<>>
    /\ wikipedia_articles' = <<>>
    /\ UNCHANGED <<data_path, pathKind, tree, readLog, mainVars, lineVars>>

\* lines 64-97: one iteration of the loop over files_to_process
ProcessFile ==
    /\ pc = "reading"
    /\ fileIdx <= Len(files_to_process)
    /\ \E lines \in SeqsUpTo(LineIds, MaxTotalLines - LinesIn(readLog)) :
         \E io_error \in BOOLEAN :
           LET file_path == files_to_process[fileIdx]
               r == ReadFrom(lines, io_error, 1)
           IN  /\ articles' = Appended(articles, r.articles)
               /\ fileIdx' = NextFile(fileIdx, r.ended)
               /\ readLog' = Append(readLog,
                                [file_path |-> file_path,
                                 is_bz2 |-> EndsWith(file_path, BZ2),
                                 lines |-> lines,
                                 io_error |-> io_error,
                                 ended |-> r.ended,
                                 before |-> Len(articles),
                                 after |-> Len(Appended(articles, r.articles))])
    /\ UNCHANGED <<pc, data_path, pathKind, tree, files_to_process, wikipedia_articles,
                   mainVars, lineVars>>

\* lines 99-100: the loop is over, articles is returned; the record of what
\* the call read ends with the call
ReturnArticles ==
    /\ pc = "reading"
    /\ fileIdx > Len(files_to_process)
    /\ wikipedia_articles' = articles
    /\ pc' = "loaded"
    /\ readLog' = <<>>
    /\ UNCHANGED <<data_path, pathKind, tree, files_to_process, fileIdx, articles, mainVars,
                   lineVars>>

(***************************************************************************)
(* __main__                                                                *)
(***************************************************************************)
NoIndex == [built |-> FALSE, vectors |-> <<>>]

NoArtifacts == [files |-> {}, index_vectors |-> <<>>, corpus_ids |-> <<>>,
                corpus_embeddings |-> <<>>]

\* the state of __main__ before line 117
MainIdle ==
    /\ model_loaded = FALSE
    /\ corpus_texts = <<>>
    /\ corpus_ids = <<>>
    /\ i = 0
    /\ all_embeddings = <<>>
    /\ encode_calls = <<>>
    /\ corpus_embeddings = <<>>
    /\ index = NoIndex
    /\ artifacts = NoArtifacts
    /\ reported = <<>>
    /\ warnings = <<>>

\* k_neighbors (line 181)
k_neighbors == 5

\* query_text (line 177), shortened to "Who"
query_text == <<87, 104, 111>>

RECURSIVE SumOf(_)
SumOf(s) == IF s = <<>> THEN 0 ELSE Head(s) + SumOf(Tail(s))

\* The embedding of one text. The model is a black box that maps every text
\* on its own to a vector of one width; here the width is 2.
Embed(text) == <<Len(text), SumOf(text) % 5>>

\* model.encode(chunk, convert_to_numpy=True): one row per text of the chunk
Encode(chunk) == [n \in 1..Len(chunk) |-> Embed(chunk[n])]

\* corpus_texts[i:i + chunk_size] cut one short: a plausible slip
ChunkShort(texts, start, size) ==
    SubSeq(texts, start + 1, Min(start + size - 1, Len(texts)))

\* corpus_texts[i:i + chunk_size] (line 138)
Chunk(texts, start, size) == SubSeq(texts, start + 1, Min(start + size, Len(texts)))

\* the chunks stacked last first: a plausible slip
RECURSIVE VstackReversed(_)
VstackReversed(chunks) ==
    IF chunks = <<>> THEN <<>> ELSE VstackReversed(Tail(chunks)) \o Head(chunks)

\* np.vstack(all_embeddings) (line 143)
RECURSIVE Vstack(_)
Vstack(chunks) == IF chunks = <<>> THEN <<>> ELSE Head(chunks) \o Vstack(Tail(chunks))

\* squared L2 distance, as IndexFlatL2 reports it
SquaredL2(u, v) == SumOf([d \in 1..Len(u) |-> (u[d] - v[d]) * (u[d] - v[d])])

\* index.search(query, k) of faiss.IndexFlatL2 for one query: every result it
\* may return. The min(k, ntotal) nearest vectors come first, nearest first
\* (the order among equal distances is the library's), as 0-based positions;
\* the slots left when ntotal < k hold position -1 and the largest float.
SearchResults(vectors, query, k) ==
    LET ntotal == Len(vectors)
        dist(n) == SquaredL2(vectors[n], query)
        orders == {o \in [1..ntotal -> 1..ntotal] :
                     /\ \A a, b \in 1..ntotal : a # b => o[a] # o[b]
                     /\ \A a, b \in 1..ntotal : a < b => dist(o[a]) <= dist(o[b])}
    IN  { [indices |-> [r \in 1..k |-> IF r <= ntotal THEN o[r] - 1 ELSE 0 - 1],
           distances |-> [r \in 1..k |-> IF r <= ntotal THEN dist(o[r]) ELSE 1000000]]
          : o \in orders }

\* seq[idx] in Python for -len(seq) <= idx < len(seq): a negative idx counts
\* from the end
PyIndex(seq, idx) == IF idx >= 0 THEN seq[idx + 1] ELSE seq[Len(seq) + idx + 1]

\* next((a['title'] for a in wikipedia_articles if a['id'] == article_id), "Unknown")
\* with "Unknown" shortened to "?"
TitleOf(article_id) ==
    LET hits == SelectSeq(wikipedia_articles, LAMBDA a : a.id = article_id)
    IN  IF hits = <<>> THEN <<63>> ELSE hits[1].title

\* the loop of lines 185-192 over indices[0] from slot r on: the ranks printed
\* and the positions warned about
RECURSIVE ReportFrom(_, _)
ReportFrom(found, r) ==
    IF r > Len(found.indices) THEN [reported |-> <<>>, warnings |-> <<>>]
    ELSE LET idx == found.indices[r]
             rest == ReportFrom(found, r + 1)
         IN  IF idx < Len(corpus_ids)
             THEN [reported |-> <<[rank |-> r,
                                   idx |-> idx,
                                   id |-> PyIndex(corpus_ids, idx),
                                   title |-> TitleOf(PyIndex(corpus_ids, idx)),
                                   distance |-> found.distances[r]]>> \o rest.reported,
                   warnings |-> rest.warnings]
             ELSE [reported |-> rest.reported, warnings |-> <<idx>> \o rest.warnings]

\* lines 109-112: the data directory must exist
CheckPath ==
    /\ pc = "start"
    /\ pc' = IF pathKind = "missing" THEN "exit_no_data" ELSE "resolve"
    /\ UNCHANGED <<loadVars, mainVars, lineVars>>

\* lines 117-130 going on with an empty corpus: a plausible slip
CheckArticlesUnguarded ==
    /\ pc = "loaded"
    /\ pc' = "embedding"
    /\ model_loaded' = TRUE
    /\ corpus_texts' = [n \in 1..Len(wikipedia_articles) |-> wikipedia_articles[n].text]
    /\ corpus_ids' = [n \in 1..Len(wikipedia_articles) |-> wikipedia_articles[n].id]
    /\ \E size \in 1..MaxChunkSize : chunk_size' = size
    /\ i' = 0
    /\ all_embeddings' = <<>>
    /\ UNCHANGED <<lineVars, loadVars, encode_calls, corpus_embeddings, index, artifacts,
                   reported, warnings>>

\* lines 117-135: no article stops the run; else the model is loaded, the
\* texts and ids are taken from the articles and chunk_size is set. It is
\* set to 1000 in the source and to any of 1..MaxChunkSize here, so that the
\* corpus of the model spans several chunks.
CheckArticles ==
    /\ pc = "loaded"
    /\ IF wikipedia_articles # <<>>
       THEN /\ pc' = "embedding"
            /\ model_loaded' = TRUE
            /\ corpus_texts' = [n \in 1..Len(wikipedia_articles) |->
                                  wikipedia_articles[n].text]
            /\ corpus_ids' = [n \in 1..Len(wikipedia_articles) |-> wikipedia_articles[n].id]
            /\ \E size \in 1..MaxChunkSize : chunk_size' = size
            /\ i' = 0
            /\ all_embeddings' = <<>>
       ELSE /\ pc' = "exit_no_articles"
            /\ UNCHANGED <<model_loaded, corpus_texts, corpus_ids, chunk_size, i,
                           all_embeddings>>
    /\ UNCHANGED <<lineVars, loadVars, encode_calls, corpus_embeddings, index, artifacts,
                   reported, warnings>>

\* lines 137-140: one iteration of the embedding loop
EmbedChunk ==
    /\ pc = "embedding"
    /\ i < Len(corpus_texts)
    /\ LET chunk == Chunk(corpus_texts, i, chunk_size)
       IN  /\ encode_calls' = Append(encode_calls, chunk)
           /\ all_embeddings' = Append(all_embeddings, Encode(chunk))
    /\ i' = i + chunk_size
    /\ UNCHANGED <<pc, lineVars, loadVars, model_loaded, corpus_texts, corpus_ids, chunk_size,
                   corpus_embeddings, index, artifacts, reported, warnings>>

\* lines 142-147: the chunk results are stacked; none stops the run
StackEmbeddings ==
    /\ pc = "embedding"
    /\ i >= Len(corpus_texts)
    /\ IF all_embeddings # <<>>
       THEN /\ corpus_embeddings' = Vstack(all_embeddings)
            /\ pc' = "stacked"
       ELSE /\ pc' = "exit_no_embeddings"
            /\ UNCHANGED corpus_embeddings
    /\ UNCHANGED <<lineVars, loadVars, model_loaded, corpus_texts, corpus_ids, chunk_size, i,
                   all_embeddings, encode_calls, index, artifacts, reported, warnings>>

\* lines 150-157: the index is built from the matrix; no row stops the run
BuildIndex ==
    /\ pc = "stacked"
    /\ IF Len(corpus_embeddings) > 0
       THEN /\ index' = [built |-> TRUE, vectors |-> NoIndex.vectors \o corpus_embeddings]
            /\ pc' = "indexed"
       ELSE /\ pc' = "exit_no_rows"
            /\ UNCHANGED index
    /\ UNCHANGED <<lineVars, loadVars, model_loaded, corpus_texts, corpus_ids, chunk_size, i,
                   all_embeddings, encode_calls, corpus_embeddings, artifacts, reported,
                   warnings>>

\* lines 160-173: the index, the ids and the matrix are written
SaveArtifacts ==
    /\ pc = "indexed"
    /\ artifacts' = [files |-> {"wikipedia_faiss_index.bin", "wikipedia_corpus_ids.json",
                                "wikipedia_corpus_embeddings.npy"},
                     index_vectors |-> index.vectors,
                     corpus_ids |-> corpus_ids,
                     corpus_embeddings |-> corpus_embeddings]
    /\ pc' = "saved"
    /\ UNCHANGED <<lineVars, loadVars, model_loaded, corpus_texts, corpus_ids, chunk_size, i,
                   all_embeddings, encode_calls, corpus_embeddings, index, reported,
                   warnings>>

\* lines 176-194: the query is embedded, the index searched, the ranks printed
TestRetrieval ==
    /\ pc = "saved"
    /\ \E found \in SearchResults(index.vectors, Encode(<<query_text>>)[1], k_neighbors) :
         LET r == ReportFrom(found, 1)
         IN  /\ reported' = r.reported
             /\ warnings' = r.warnings
    /\ encode_calls' = Append(encode_calls, <<query_text>>)
    /\ pc' = "done"
    /\ UNCHANGED <<lineVars, loadVars, model_loaded, corpus_texts, corpus_ids, chunk_size, i,
                   all_embeddings, corpus_embeddings, index, artifacts>>

NotHandled == [outcome |-> "none", article |-> NoArticle]

\* no line is being handled on its own
LineIdle ==
    /\ line = BlankLine
    /\ handled = NotHandled

\* a call of load_wikipedia_articles on any path
InitLoad ==
    /\ pc = "resolve"
    /\ data_path \in DataPaths
    /\ pathKind \in {"file", "dir", "missing"}
    /\ tree \in SUBSET TreeUniverse(data_path)
    /\ pathKind # "dir" => tree = {}
    /\ pathKind = "dir" => data_path = WIKI_DATA_PATH_FOR_LOADING
    /\ pathKind = "file" => data_path # WIKI_DATA_PATH_FOR_LOADING
    /\ files_to_process = <<>>
    /\ fileIdx = 1
    /\ articles = <<>>
    /\ readLog = <<>>
    /\ wikipedia_articles = <<>>
    /\ chunk_size = 0
    /\ MainIdle
    /\ LineIdle

NextLoad == Resolve \/ ProcessFile \/ ReturnArticles

SpecLoad == InitLoad /\ [][NextLoad]_vars

\* a run of the script
Init ==
    /\ pc = "start"
    /\ data_path = WIKI_DATA_PATH_FOR_LOADING
    /\ pathKind \in {"dir", "missing"}
    /\ tree \in SUBSET TreeUniverse(data_path)
    /\ pathKind # "dir" => tree = {}
    /\ files_to_process = <<>>
    /\ fileIdx = 1
    /\ articles = <<>>
    /\ readLog = <<>>
    /\ wikipedia_articles = <<>>
    /\ chunk_size = 0
    /\ MainIdle
    /\ LineIdle

Next ==
    \/ CheckPath
    \/ Resolve
    \/ ProcessFile
    \/ ReturnArticles
    \/ CheckArticles
    \/ EmbedChunk
    \/ StackEmbeddings
    \/ BuildIndex
    \/ SaveArtifacts
    \/ TestRetrieval

Spec == Init /\ [][Next]_vars

(***************************************************************************)
(* The body of the loop over lines, on its own, over many shapes of `text`.*)
(***************************************************************************)
\* what a list nested in `text` may hold: "b", "c", a number, a deeper list ["d"]
InnerItems == {Str(<<98>>), Str(<<99>>), Num, List(<<Str(<<100>>)>>)}

\* what `text` may hold: "a", "e f", a number, a nested list
TextItems ==
    {Str(<<97>>), Str(<<101, 32, 102>>), Num} \cup {List(l) : l \in SeqsUpTo(InnerItems, 2)}

\* the values of `text`: a list of up to MaxItems items, the str "gh", a number
TextValues == {List(l) : l \in SeqsUpTo(TextItems, MaxItems)} \cup {Str(<<103, 104>>), Num}

\* the records: keys id, title and text present or not; id "1", title "A"
Records ==
    {Doc(has, IF "id" \in has THEN <<49>> ELSE <<>>,
              IF "title" \in has THEN <<65>> ELSE <<>>,
              List(<<>>)) : has \in SUBSET {"id", "title"}}
    \cup
    {Doc(has \cup {"text"}, IF "id" \in has THEN <<49>> ELSE <<>>,
                            IF "title" \in has THEN <<65>> ELSE <<>>,
                            text) : has \in SUBSET {"id", "title"}, text \in TextValues}

Lines == {BlankLine, BadLine} \cup {JsonLine(doc) : doc \in Records}

\* lines 71-94 for the line
HandleOneLine ==
    /\ pc = "line"
    /\ handled' = HandleLine(line)
    /\ pc' = "line_done"
    /\ UNCHANGED <<line, loadVars, mainVars>>

InitLine ==
    /\ pc = "line"
    /\ line \in Lines
    /\ handled = NotHandled
    /\ data_path = WIKI_DATA_PATH_FOR_LOADING
    /\ pathKind = "missing"
    /\ tree = {}
    /\ files_to_process = <<>>
    /\ fileIdx = 1
    /\ articles = <<>>
    /\ readLog = <<>>
    /\ wikipedia_articles = <<>>
    /\ chunk_size = 0
    /\ MainIdle

NextLine == HandleOneLine

SpecLine == InitLine /\ [][NextLine]_vars

(***************************************************************************)
(* What the specification says of a record, stated without the code.       *)
(***************************************************************************)
\* a line holding a JSON object with a title
TitleBearing(n) == LineTable[n].kind = "json" /\ "title" \in LineTable[n].doc.has

Unparsable(n) == LineTable[n].kind = "bad"

\* a line holding a JSON object without a title
Untitled(n) == LineTable[n].kind = "json" /\ "title" \notin LineTable[n].doc.has

\* a list flattened exactly one level
RECURSIVE FlattenOnce(_)
FlattenOnce(elems) ==
    IF elems = <<>> THEN <<>>
    ELSE LET last == elems[Len(elems)]
         IN  FlattenOnce(SubSeq(elems, 1, Len(elems) - 1))
             \o (IF last.t = "list" THEN last.l ELSE <<last>>)

\* strings joined with one space between neighbours
RECURSIVE SingleSpaced(_)
SingleSpaced(strs) ==
    IF strs = <<>> THEN <<>>
    ELSE IF Len(strs) = 1 THEN strs[1].s
    ELSE SingleSpaced(SubSeq(strs, 1, Len(strs) - 1)) \o <<32>> \o strs[Len(strs)].s

\* Document.text of a record whose text is a list, or absent
DocumentText(doc) ==
    IF "text" \notin doc.has THEN <<>>
    ELSE SingleSpaced(SelectSeq(FlattenOnce(doc.text.l), LAMBDA e : e.t = "str"))

\* the Document of a title-bearing record
Document(doc) ==
    [id |-> IF "id" \in doc.has THEN doc.id ELSE doc.title,
     title |-> doc.title,
     text |-> DocumentText(doc)]

\* the documents of the title-bearing lines among `lines`, in line order
DocumentsOf(lines) ==
    LET kept == SelectSeq(lines, TitleBearing)
    IN  [n \in 1..Len(kept) |-> Document(LineTable[kept[n]].doc)]

\* the lines of a file up to the first untitled record, that record left out
RECURSIVE BeforeUntitled(_)
BeforeUntitled(lines) ==
    IF lines = <<>> \/ Untitled(Head(lines)) THEN <<>>
    ELSE <<Head(lines)>> \o BeforeUntitled(Tail(lines))

\* the articles the n-th file opened has added
Contribution(n) == SubSeq(articles, readLog[n].before + 1, readLog[n].after)

LoopOver == pc = "reading" /\ fileIdx > Len(files_to_process)

(***************************************************************************)
(* Claims about load_wikipedia_articles, checked under SpecLoad.           *)
(***************************************************************************)
\* C1: a record that parses but has no title is skipped on its own: every
\* file read without an I/O error adds the documents of all its
\* title-bearing lines, those after an untitled record included.
C1_UntitledSkippedAlone ==
    \A n \in DOMAIN readLog :
        ~readLog[n].io_error => Contribution(n) = DocumentsOf(readLog[n].lines)

\* C3: the files are resolved in priority order: a file path gives that
\* file; a directory holding the decompressed file gives that file alone;
\* else every .bz2 file of the tree, once each, in ascending order of the
\* full path, whatever the order of the walk.
C3_ResolutionOrder ==
    pc \in {"reading", "loaded"} =>
        /\ pathKind = "file" => files_to_process = <<data_path>>
        /\ pathKind = "missing" => files_to_process = <<>>
        /\ pathKind = "dir" =>
             LET single == OsPathJoin(data_path, decompressed_file_name)
                 shards == {OsPathJoin(e.root, e.file) : e \in {x \in tree : EndsWith(x.file, BZ2)}}
             IN  IF \E e \in tree : e.root = data_path /\ e.file = decompressed_file_name
                 THEN files_to_process = <<single>>
                 ELSE /\ {files_to_process[n] : n \in DOMAIN files_to_process} = shards
                      /\ Len(files_to_process) = Cardinality(shards)
                      /\ \A a, b \in DOMAIN files_to_process :
                           a < b => StrLess(files_to_process[a], files_to_process[b])

\* C3 witness: a directory without the decompressed file, holding three
\* shards (one nested) and a file that is no shard, has been resolved
C3_Witness ==
    /\ pc = "reading"
    /\ pathKind = "dir"
    /\ Cardinality(tree) = 4
    /\ Len(files_to_process) = 3

\* C4: a file read without an I/O error whose lines are unparsable lines
\* and title-bearing records ends at its end of file, not in the except
\* clause, and adds exactly the documents of its title-bearing lines.
C4_MalformedLinesSkipped ==
    \A n \in DOMAIN readLog :
        (/\ ~readLog[n].io_error
         /\ \A j \in DOMAIN readLog[n].lines :
              Unparsable(readLog[n].lines[j]) \/ TitleBearing(readLog[n].lines[j]))
        => /\ readLog[n].ended = "eof"
           /\ Contribution(n) = DocumentsOf(readLog[n].lines)

\* C4 witness: a file held an unparsable line followed by a valid record
C4_Witness ==
    \E n \in DOMAIN readLog :
        /\ ~readLog[n].io_error
        /\ Len(readLog[n].lines) = 3
        /\ Unparsable(readLog[n].lines[1])
        /\ TitleBearing(readLog[n].lines[2])
        /\ Unparsable(readLog[n].lines[3])

C8_OrderPreserved ==
    /\ \A n \in DOMAIN readLog :
         /\ readLog[n].file_path = files_to_process[n]
         /\ readLog[n].before = (IF n = 1 THEN 0 ELSE readLog[n - 1].after)
         /\ Contribution(n) = DocumentsOf(BeforeUntitled(readLog[n].lines))
    /\ pc = "reading" =>
         Len(articles) = (IF readLog = <<>> THEN 0 ELSE readLog[Len(readLog)].after)
    /\ pc = "loaded" => wikipedia_articles = articles

\* C8 witness: two files were read, the second added a document with the id
\* of a different document of the first
C8_Witness ==
    /\ LoopOver
    /\ Len(readLog) = 2
    /\ readLog[1].after = 2
    /\ readLog[2].after = 3
    /\ articles[1].id = articles[3].id
    /\ articles[1] # articles[3]
    /\ articles[2].id # articles[1].id

(***************************************************************************)
(* Claims about the handling of one record, checked under SpecLine.        *)
(***************************************************************************)
\* C9: for a title-bearing record whose text is a list (of strings, of
\* lists, of both, with other elements among them) or absent, the document
\* is emitted and its text is the strings left after flattening the list
\* exactly one level and dropping what is no string, joined in order with
\* one space; an absent text gives the empty text.
C9_TextFlattenedOneLevel ==
    (/\ pc = "line_done"
     /\ line.kind = "json"
     /\ "title" \in line.doc.has
     /\ "text" \in line.doc.has => line.doc.text.t = "list")
    => /\ handled.outcome = "doc"
       /\ handled.article.text = DocumentText(line.doc)
       /\ "text" \notin line.doc.has => handled.article.text = <<>>

\* C9 witness: a record was handled whose text holds a nested list with a
\* string, a number and a deeper list, followed by a string
C9_Witness ==
    /\ pc = "line_done"
    /\ line.kind = "json"
    /\ line.doc.has = {"title", "text"}
    /\ line.doc.text = List(<<List(<<Str(<<98>>), List(<<Str(<<100>>)>>)>>), Str(<<97>>)>>)
    /\ handled.article.text = <<98, 32, 97>>

(***************************************************************************)
(* Claims about the build pipeline, checked under Spec.                    *)
(***************************************************************************)
\* C2: the retrieval step reports exactly min(k, ntotal) results: a slot
\* returned as "no result" (position -1) is omitted and mapped to no id,
\* every reported position lies in 0..ntotal-1, and none is reported twice.
C2_NoResultOmitted ==
    pc = "done" =>
        /\ Len(reported) = Min(k_neighbors, Len(index.vectors))
        /\ \A r \in DOMAIN reported : reported[r].idx \in 0..(Len(index.vectors) - 1)
        /\ \A a, b \in DOMAIN reported : a # b => reported[a].idx # reported[b].idx

\* C6: when the artifacts are saved, the ids, the rows of the matrix and the
\* vectors of the index are as many as the loaded documents, and the i-th
\* id is the id of the i-th document, the i-th row and the i-th vector the
\* embedding of its text.
C6_Aligned ==
    pc \in {"saved", "done"} =>
        /\ artifacts.files # {}
        /\ artifacts.index_vectors = index.vectors
        /\ Len(artifacts.corpus_ids) = Len(wikipedia_articles)
        /\ Len(artifacts.corpus_embeddings) = Len(wikipedia_articles)
        /\ Len(artifacts.index_vectors) = Len(wikipedia_articles)
        /\ \A n \in DOMAIN wikipedia_articles :
             /\ artifacts.corpus_ids[n] = wikipedia_articles[n].id
             /\ artifacts.corpus_embeddings[n] = Embed(wikipedia_articles[n].text)
             /\ artifacts.index_vectors[n] = Embed(wikipedia_articles[n].text)

\* C6 witness: three documents with three different texts, embedded in two
\* chunks, have been saved
C6_Witness ==
    /\ pc = "saved"
    /\ Len(wikipedia_articles) = 3
    /\ Len(all_embeddings) = 2
    /\ Cardinality({wikipedia_articles[n].text : n \in DOMAIN wikipedia_articles}) = 3

\* the chunks model.encode was called with by the embedding loop
ChunkCalls == SubSeq(encode_calls, 1, Len(all_embeddings))

RECURSIVE Flat(_)
Flat(chunks) == IF chunks = <<>> THEN <<>> ELSE Head(chunks) \o Flat(Tail(chunks))

\* C7: the embedding loop calls the embedding function once per chunk, the
\* chunks being the texts cut in order into runs of chunk_size (the last
\* possibly shorter, none empty), and the stacked matrix has one row per
\* text, row n the embedding of text n, whatever chunk_size is.
C7_ChunkingKeepsRows ==
    /\ pc \in {"embedding", "stacked", "indexed", "saved", "done"} =>
         /\ Len(encode_calls) >= Len(all_embeddings)
         /\ Flat(ChunkCalls) = SubSeq(corpus_texts, 1, Min(i, Len(corpus_texts)))
         /\ \A c \in DOMAIN ChunkCalls :
              /\ Len(ChunkCalls[c]) >= 1
              /\ Len(ChunkCalls[c]) <= chunk_size
              /\ c < Len(ChunkCalls) => Len(ChunkCalls[c]) = chunk_size
    /\ pc \in {"stacked", "indexed", "saved", "done"} =>
         /\ Len(corpus_embeddings) = Len(corpus_texts)
         /\ corpus_embeddings = [n \in 1..Len(corpus_texts) |-> Embed(corpus_texts[n])]
         /\ Flat(ChunkCalls) = corpus_texts

\* C7 witness: three texts were embedded with chunk_size 2, in two chunks
C7_Witness ==
    /\ pc = "stacked"
    /\ chunk_size = 2
    /\ Len(corpus_texts) = 3
    /\ Len(ChunkCalls) = 2

\* C10: a run whose load returned no document stops before any embedding
\* work: once load_wikipedia_articles has returned an empty list, the model
\* is never loaded or called, no index is built and no artifact is written.
C10_EmptyCorpusStops ==
    (pc \notin {"start", "resolve", "reading", "exit_no_data"} /\ wikipedia_articles = <<>>)
    => /\ pc \in {"loaded", "exit_no_articles"}
       /\ ~model_loaded
       /\ encode_calls = <<>>
       /\ ~index.built
       /\ artifacts = NoArtifacts

\* C10 witness: files were found and none gave a document, and the run has
\* stopped
C10_Witness ==
    /\ pc = "exit_no_articles"
    /\ Len(files_to_process) = 2

=============================================================================
